---- MODULE Spec2Model ----
(***************************************************************************)
(* Model of the code-execution sandbox of agent-chat:                      *)
(*   app/(chat)/api/python/modules/code_executor.py  execute_python_code   *)
(*   app/(chat)/api/python/server.py                 execute_code          *)
(*                                                                         *)
(* Strings that the code inspects character by character (paths) are       *)
(* sequences of one-character strings; a path is parsed into               *)
(* [abs, parts].  Optional values (None) are the empty tuple.              *)
(***************************************************************************)
EXTENDS Integers, Sequences, FiniteSets, TLC

None == <<>>

\* ------------------------------------------------------------------ bounds
MaxFiles == 2
Procs == {1, 2}

\* -------------------------------------------------- configuration constants
DEFAULT_TIMEOUT == 10
MAX_TIMEOUT == 60

\* ------------------------------------------------------------- path names
DOT == <<".">>
DOTDOT == <<".", ".">>
PLOT_FILENAME == <<"p", "l", "o", "t", ".", "p", "n", "g">>
script_filename == <<"s", "c", "r", "i", "p", "t", ".", "p", "y">>

\* tempfile.gettempdir(): the directory mkdtemp creates work areas in
TempRoot == [abs |-> TRUE, parts |-> << <<"t">> >>]
\* names mkdtemp may generate (equal length, as tempfile's random names are)
TempNames == { <<"w", "1">>, <<"w", "2">> }
\* the durable store root
UPLOADS_DIR == [abs |-> TRUE, parts |-> << <<"u">> >>]
\* the server's working directory (used by abspath on relative paths)
Cwd == [abs |-> TRUE, parts |-> << <<"s", "r", "v">> >>]

Rel(parts) == [abs |-> FALSE, parts |-> parts]
Abs(parts) == [abs |-> TRUE, parts |-> parts]

\* os.path.join(a, b)
PathJoin(a, b) ==
    IF b.abs THEN b ELSE [abs |-> a.abs, parts |-> a.parts \o b.parts]

\* os.path.normpath on the parts: "" and "." dropped, ".." pops
RECURSIVE NormParts(_, _, _)
NormParts(parts, acc, isAbs) ==
    IF parts = <<>> THEN acc
    ELSE LET c == Head(parts)
             r == Tail(parts)
         IN  IF c = <<>> \/ c = DOT THEN NormParts(r, acc, isAbs)
             ELSE IF c = DOTDOT
                  THEN IF acc # <<>> /\ acc[Len(acc)] # DOTDOT
                       THEN NormParts(r, SubSeq(acc, 1, Len(acc) - 1), isAbs)
                       ELSE IF isAbs THEN NormParts(r, acc, isAbs)
                            ELSE NormParts(r, Append(acc, c), isAbs)
                  ELSE NormParts(r, Append(acc, c), isAbs)

normpath(p) == [abs |-> p.abs, parts |-> NormParts(p.parts, <<>>, p.abs)]

\* os.path.abspath(p)
abspath(p) == normpath(IF p.abs THEN p ELSE PathJoin(Cwd, p))

\* the characters of an absolute normalised path: "/a/b"
RECURSIVE PathChars(_)
PathChars(parts) ==
    IF parts = <<>> THEN <<>>
    ELSE <<"/">> \o Head(parts) \o PathChars(Tail(parts))

PathStr(p) == IF p.parts = <<>> THEN <<"/">> ELSE PathChars(p.parts)

\* os.path.commonprefix([a, b]): the longest common prefix, char by char
RECURSIVE commonprefix(_, _)
commonprefix(a, b) ==
    IF a = <<>> \/ b = <<>> \/ Head(a) # Head(b) THEN <<>>
    ELSE <<Head(a)>> \o commonprefix(Tail(a), Tail(b))

\* code_executor.py:146, the test that lets a destination through
PathAllowedAlways(target_path, temp_dir_path) == TRUE

PathAllowed(target_path, temp_dir_path) ==
    commonprefix(PathStr(abspath(target_path)), PathStr(abspath(temp_dir_path)))
        = PathStr(abspath(temp_dir_path))

\* ------------------------------------------------------------ file system
\* Resolution of a path by the operating system: every directory walked
\* through has to exist.  Returns <<parts>> or None (ENOENT / ENOTDIR).
RECURSIVE Walk(_, _, _)
Walk(parts, cur, dirs) ==
    IF parts = <<>> THEN <<cur>>
    ELSE LET c == Head(parts)
             r == Tail(parts)
         IN  IF cur \notin dirs THEN None
             ELSE IF c = <<>> \/ c = DOT THEN Walk(r, cur, dirs)
             ELSE IF c = DOTDOT
                  THEN Walk(r, IF cur = <<>> THEN cur
                               ELSE SubSeq(cur, 1, Len(cur) - 1), dirs)
                  ELSE Walk(r, Append(cur, c), dirs)

Resolve(p, dirs) == Walk(p.parts, <<>>, dirs)

IsUnder(parts, dirParts) ==
    /\ Len(parts) > Len(dirParts)
    /\ SubSeq(parts, 1, Len(dirParts)) = dirParts

\* ------------------------------------------------------- timeout values
\* A timeout argument as Python sees it: an int/float ("num", also the
\* floats nan, inf, -inf), None, some other type ("str"), or not given.
Num(n) == [tag |-> "num", v |-> n]
NaN == [tag |-> "nan", v |-> 0]
PosInf == [tag |-> "inf", v |-> 0]
NegInf == [tag |-> "ninf", v |-> 0]
PyNone == [tag |-> "none", v |-> 0]
PyStr == [tag |-> "str", v |-> 0]
NotGiven == [tag |-> "missing", v |-> 0]

\* isinstance(timeout, (int, float))
IsNumber(t) == t.tag \in {"num", "nan", "inf", "ninf"}
\* timeout <= n and timeout > n on Python numbers (every comparison with
\* nan is False)
PyLe(t, n) == (t.tag = "num" /\ t.v <= n) \/ t.tag = "ninf"
PyGt(t, n) == (t.tag = "num" /\ t.v > n) \/ t.tag = "inf"

ValidateTimeoutNoTypeCheck(timeout) ==
    IF PyLe(timeout, 0) THEN Num(DEFAULT_TIMEOUT)
    ELSE IF PyGt(timeout, MAX_TIMEOUT) THEN Num(MAX_TIMEOUT)
    ELSE timeout

\* code_executor.py:121-128
ValidateTimeout(timeout) ==
    IF ~IsNumber(timeout) \/ PyLe(timeout, 0) THEN Num(DEFAULT_TIMEOUT)
    ELSE IF PyGt(timeout, MAX_TIMEOUT) THEN Num(MAX_TIMEOUT)
    ELSE timeout

\* the value bound to the parameter when the argument is not given:
\* data.get('timeout', 10) in server.py, timeout=DEFAULT_TIMEOUT in the
\* signature of execute_python_code
TimeoutArg(t) == IF t.tag = "missing" THEN Num(DEFAULT_TIMEOUT) ELSE t

\* code_executor.py:201-209: the ways the wait of subprocess.run on a
\* spawned child can end. With a number as timeout the wait ends by the
\* child's exit or, at the latest when the time is over, by killing the
\* child (TimeoutExpired); with None there is no limit and the wait ends
\* only if the child does; nan, the infinities and other types make the
\* wait raise (ValueError, OverflowError, TypeError) and the child is
\* killed.
WaitOutcomes(timeout, loops) ==
    LET ends == IF loops THEN {} ELSE {"exit"}
    IN  IF timeout.tag = "num" THEN ends \cup {"timeout"}
        ELSE IF timeout.tag = "none" THEN ends
        ELSE {"wait_error"}

\* ---------------------------------------------------------- text lines
\* stdout / stderr are sequences of lines; a line is [tag, n], n being
\* the position of the input file a staging warning is about (else 0)
L(tag, n) == [tag |-> tag, n |-> n]

\* code_executor.py:219-220, the lines kept in the error summary
RECURSIVE FilterStderr(_)
FilterStderr(lines) ==
    IF lines = <<>> THEN <<>>
    ELSE IF Head(lines).tag = "plot_saved" THEN FilterStderr(Tail(lines))
         ELSE <<Head(lines)>> \o FilterStderr(Tail(lines))

\* code_executor.py:106-112
InitialResult ==
    [stdout |-> <<>>, stderr |-> <<>>, error |-> None, success |-> FALSE,
     plot_url |-> None]

\* code_executor.py:211-224, the result after the child has terminated
RunResultNoError(result, process) ==
    [result EXCEPT !.stdout = process.stdout, !.stderr = process.stderr,
                   !.success = (process.returncode = 0)]

RunResultAlwaysSuccess(result, process) ==
    [result EXCEPT !.stdout = process.stdout, !.stderr = process.stderr,
                   !.success = TRUE]

RunResult(result, process) ==
    IF process.returncode = 0
    THEN [result EXCEPT !.stdout = process.stdout,
                        !.stderr = process.stderr,
                        !.success = TRUE]
    ELSE [result EXCEPT !.stdout = process.stdout,
                        !.stderr = process.stderr,
                        !.error = <<"retcode", process.returncode,
                                    FilterStderr(process.stderr)>>]

\* code_executor.py:255-273, the except clauses of the outer try: the
\* error message chosen for an exception of class e
HandlerError(e, timeout) ==
    IF e = "TimeoutExpired" THEN <<"timeout", timeout>>
    ELSE IF e = "FileNotFoundError" THEN <<"not_found">>
    ELSE <<"unexpected", e>>

\* code_executor.py:274, the finally clause: where control goes when the
\* try body or one of its handlers is left
AfterTryNoFinally == "return"

AfterTry == "finally"

\* code_executor.py:140 and 151, the loop over input_files: where control
\* goes after the spec at position i of n
StageNextBreak(i, n, failed) ==
    IF i < n /\ ~failed THEN "stage" ELSE "write_script"

StageNextSkipsScript(i, n, failed) == IF i < n THEN "stage" ELSE "run"

StageNext(i, n, failed) == IF i < n THEN "stage" ELSE "write_script"

\* code_executor.py:231, unique_plot_filename for a generated identifier
unique_plot_filename_fixed(u) == PLOT_FILENAME

unique_plot_filename(u) ==
    <<"p", "l", "o", "t", "_", u, ".", "p", "n", "g">>

\* identifiers uuid.uuid4() may return
UUIDs == {"A", "B"}

\* ------------------------------------------------------------- requests
Str(s) == [tag |-> "str", s |-> s]
NotStr == [tag |-> "other", s |-> Rel(<<>>)]
Absent == [tag |-> "missing", s |-> Rel(<<>>)]
NoChat == [tag |-> "none", s |-> Rel(<<>>)]

\* `not chat_id`
Falsy(chat_id) ==
    chat_id.tag = "none" \/ (chat_id.tag = "str" /\ chat_id.s = Rel(<<>>))

\* the user code: some program that ends by itself when left alone, and a
\* program that never ends ("while True: pass")
ANY_CODE == Rel(<<>>)
LOOP_CODE == Rel(<< <<"w", "h", "i", "l", "e">> >>)

Body(kind, code, chat_id, input_files, timeout) ==
    [kind |-> kind, code |-> code, chat_id |-> chat_id,
     input_files |-> input_files, timeout |-> timeout]

\* ----------------------------------------------------------------- urls
\* A url is the sequence of its pieces: the scheme with its colon, the
\* slashes, the host, the path segments.
U_PATH == <<"/", "f">>                          \* "/f"
U_NET == <<"/", "/", "h", "/", "f">>            \* "//h/f"
U_ABS == <<"http:", "/", "/", "h", "/", "f">>   \* "http://h/f"

\* code_executor.py:25-27
FRONTEND_BASE_URL == <<"http:", "/", "/", "localhost:3000">>

\* scheme and host of an absolute url
Origin(url) == SubSeq(url, 1, 4)

\* urllib.parse.urljoin(base, url) for a url that starts with "/": a url
\* starting with "//" is a reference with a host of its own and takes
\* only the scheme of base; any other replaces the path of base
urljoin(base, url) ==
    IF Len(url) >= 2 /\ url[2] = "/" THEN <<base[1]>> \o url
    ELSE Origin(base) \o url

\* code_executor.py:157-158
absolute_url(url) ==
    IF url # <<>> /\ url[1] = "/" THEN urljoin(FRONTEND_BASE_URL, url)
    ELSE url

FileList(items) == [tag |-> "list", items |-> items]
NoFileList == [tag |-> "missing", items |-> <<>>]
NotAList == [tag |-> "other", items |-> <<>>]
FileSpec(filename, url) == [ok |-> TRUE, filename |-> filename, url |-> url]
BadItem == [ok |-> FALSE, filename |-> Rel(<<>>), url |-> U_PATH]

\* server.py:326-347: the status the validation of execute_code answers
\* with, 200 standing for "validation passed, the code is executed"
ValidationStatus(data) ==
    IF data.kind = "falsy" THEN 400
    ELSE IF data.kind = "array_with_keys" THEN 500
    ELSE IF data.code.tag = "missing" \/ data.chat_id.tag = "missing" THEN 400
    ELSE IF data.code.tag # "str" THEN 400
    ELSE IF data.chat_id.tag # "str" \/ Falsy(data.chat_id) THEN 400
    ELSE IF data.input_files.tag = "other" THEN 400
    ELSE IF \E k \in DOMAIN data.input_files.items :
                ~data.input_files.items[k].ok THEN 400
    ELSE IF data.timeout.tag = "str" THEN 400
    ELSE 200

\* ---------------------------------------------------------------- state
VARIABLES
    pc,             \* position of each request in the code
    args,           \* arguments of execute_python_code (timeout as validated)
    result,         \* the result dictionary
    temp_dir_path,  \* None or <<path of the work area>>
    idx,            \* position in input_files of the spec staged next
    upload,         \* None or <<persistent_upload_dir, unique_plot_filename>>
    exc,            \* None or <<exception propagating out of the call>>
    response,       \* None or <<status, body kind>> answered by the endpoint
    fs,             \* the file system: directories and files
    issued,         \* identifiers uuid4 has returned
    trace           \* what has happened to each request (history)

vars == <<pc, args, result, temp_dir_path, idx, upload, exc, response, fs,
          issued, trace>>

NoArgs ==
    [code |-> ANY_CODE, input_files |-> <<>>,
     timeout |-> Num(DEFAULT_TIMEOUT),
     requested |-> NotGiven, chat_id |-> NoChat, via |-> "none"]

NoTrace ==
    [validated |-> FALSE,   \* execute_code passed validation
     created |-> None,      \* <<work area>> once mkdtemp has returned
     rmtree |-> 0,          \* successful removals of the work area
     rmfailed |-> FALSE,    \* shutil.rmtree raised
     absent |-> FALSE,      \* work area absent when the call completed
     stagelog |-> <<>>,     \* <<position, outcome>> of every spec handled
     fetched |-> <<>>,      \* <<position, url>> of every fetch sent
     warnings |-> <<>>,     \* staging warnings recorded
     outside |-> {},        \* files staging wrote outside the work area
     script |-> FALSE,      \* the script has been written
     child |-> None,        \* <<outcome of subprocess.run>>
     executed |-> None,     \* <<content of the script the child ran>>
     alive |-> {},          \* processes of the request still running
     promofail |-> FALSE,   \* makedirs or move raised
     stored |-> None,       \* <<path of the file moved into the store>>
     outcome |-> "pending"] \* "rejected", "returned" or "raised"

EmptyFiles == [x \in {} |-> L("", 0)]

InitFs ==
    [dirs |-> {<<>>, TempRoot.parts, Cwd.parts}, files |-> EmptyFiles]

Init ==
    /\ pc = [p \in Procs |-> "idle"]
    /\ args = [p \in Procs |-> NoArgs]
    /\ result = [p \in Procs |-> InitialResult]
    /\ temp_dir_path = [p \in Procs |-> None]
    /\ idx = [p \in Procs |-> 1]
    /\ upload = [p \in Procs |-> None]
    /\ exc = [p \in Procs |-> None]
    /\ response = [p \in Procs |-> None]
    /\ fs = InitFs
    /\ issued = {}
    /\ trace = [p \in Procs |-> NoTrace]

Exists(parts) == parts \in fs.dirs \/ parts \in DOMAIN fs.files

FileContent(kind, p) == L(kind, p)

\* the file system after `content` is written at `parts`
WriteFile(f, parts, content) ==
    [f EXCEPT !.files =
        [x \in (DOMAIN f.files) \cup {parts} |->
            IF x = parts THEN content ELSE f.files[x]]]

\* open(path, 'w') can create or truncate the file
CanWrite(path) ==
    LET r == Resolve(path, fs.dirs)
    IN  /\ r # None
        /\ r[1] # <<>>
        /\ r[1] \notin fs.dirs
        /\ SubSeq(r[1], 1, Len(r[1]) - 1) \in fs.dirs

\* shutil.rmtree(dir): the directory and everything below it is gone
RemoveTree(f, dirParts) ==
    [dirs |-> {d \in f.dirs : d # dirParts /\ ~IsUnder(d, dirParts)},
     files |-> [x \in {y \in DOMAIN f.files : ~IsUnder(y, dirParts)} |->
                    f.files[x]]]

\* os.makedirs(path, exist_ok=True): every directory on the way exists
\* afterwards; None when a file is in the way
RECURSIVE MakeDirsWalk(_, _, _)
MakeDirsWalk(parts, cur, f) ==
    IF cur \in DOMAIN f.files THEN None
    ELSE LET g == [f EXCEPT !.dirs = @ \cup {cur}]
         IN  IF parts = <<>> THEN <<g>>
             ELSE LET c == Head(parts)
                      r == Tail(parts)
                  IN  IF c = <<>> \/ c = DOT THEN MakeDirsWalk(r, cur, g)
                      ELSE IF c = DOTDOT
                      THEN MakeDirsWalk(r, IF cur = <<>> THEN cur
                                 ELSE SubSeq(cur, 1, Len(cur) - 1), g)
                      ELSE MakeDirsWalk(r, Append(cur, c), g)

makedirs_exclusive(path, f) ==
    IF normpath(path).parts \in f.dirs THEN None
    ELSE MakeDirsWalk(path.parts, <<>>, f)

makedirs(path, f) == MakeDirsWalk(path.parts, <<>>, f)

\* the path x, at or below src, after src has been renamed to dst
Renamed(x, src, dst) == dst \o SubSeq(x, Len(src) + 1, Len(x))

AtOrUnder(x, src) == x = src \/ IsUnder(x, src)

\* shutil.move(src, dst) onto a path that is no directory: a rename.  A
\* file replaces dst; a directory moves with everything below it.
MoveFile(f, src, dst) ==
    LET movedF == {x \in DOMAIN f.files : AtOrUnder(x, src)}
        movedD == {x \in f.dirs : AtOrUnder(x, src)}
        keptF == {x \in DOMAIN f.files : ~AtOrUnder(x, src) /\ x # dst}
    IN  [dirs |-> (f.dirs \ movedD)
                    \cup {Renamed(x, src, dst) : x \in movedD},
         files |-> [y \in keptF \cup {Renamed(x, src, dst) : x \in movedF}
                        |-> IF y \in keptF THEN f.files[y]
                            ELSE f.files[CHOOSE x \in movedF :
                                             Renamed(x, src, dst) = y]]]

\* what the child leaves at temp_plot_path: nothing, a file, or (user
\* code can create anything) a directory holding the files run.inside
\* code_executor.py:201-209: the processes left running when
\* subprocess.run is over.  The child itself has exited or, on timeout
\* and on any other exception, has been killed and waited for
\* (Popen.kill is sent to the child alone); a process the user code
\* started keeps running.
ProcessesLeft(run) ==
    IF run.kind # "spawn_failed" /\ run.spawns THEN {"descendant"} ELSE {}

ChildWrites(f, run, temp_plot_path, p) ==
    IF ~run.plot THEN f
    ELSE IF run.inside = {}
         THEN WriteFile(f, temp_plot_path, FileContent("plot", p))
         ELSE [dirs |-> f.dirs \cup {temp_plot_path},
               files |-> [x \in (DOMAIN f.files) \cup
                                {Append(temp_plot_path, n) : n \in run.inside}
                            |-> IF x \in DOMAIN f.files THEN f.files[x]
                                ELSE FileContent("plot", p)]]

\* -------------------------------------------------------------- actions
\* Every action takes the environment E it draws its inputs from: the
\* request bodies, the direct calls, the outcomes of a fetch, the runs of
\* the child and whether the operating system may refuse an operation.

Set(f, p, v) == [f EXCEPT ![p] = v]

\* code_executor.py:255-273: the exception a handler itself raises.  The
\* TimeoutExpired handler reads the local `process`, which is unbound
\* because subprocess.run raised before the assignment at line 201.
HandlerRaises(e) ==
    IF e = "TimeoutExpired" THEN <<"UnboundLocalError">> ELSE None

\* an exception of class e leaves the try body of execute_python_code
Raise(p, e) ==
    /\ result' = [result EXCEPT
                    ![p].error = HandlerError(e, args[p].timeout)]
    /\ exc' = Set(exc, p, HandlerRaises(e))
    /\ pc' = Set(pc, p, AfterTry)

\* code_executor.py:93-128: entry of execute_python_code
Enter(p, a, validated) ==
    /\ trace' = [trace EXCEPT ![p].validated = validated]
    /\ IF Falsy(a.chat_id)
       THEN /\ result' = Set(result, p,
                    [InitialResult EXCEPT !.error = <<"missing_chat_id">>])
            /\ args' = Set(args, p, a)
            /\ pc' = Set(pc, p, "return")
       ELSE /\ result' = Set(result, p, InitialResult)
            /\ args' = Set(args, p,
                    [a EXCEPT !.timeout = ValidateTimeout(a.timeout)])
            /\ pc' = Set(pc, p, "mkdtemp")
    /\ UNCHANGED <<temp_dir_path, idx, upload, exc, response, fs, issued>>

\* server.py:322-368: the endpoint receives a request body
execute_code(p, E) ==
    /\ pc[p] = "idle"
    /\ \E data \in E.bodies :
         LET st == ValidationStatus(data)
         IN  IF st # 200
             THEN /\ response' = Set(response, p, <<st, "error">>)
                  /\ pc' = Set(pc, p, "done")
                  /\ trace' = [trace EXCEPT ![p].outcome = "rejected"]
                  /\ UNCHANGED <<args, result, temp_dir_path, idx, upload,
                                 exc, fs, issued>>
             ELSE Enter(p, [code |-> data.code.s,
                            input_files |-> data.input_files.items,
                            timeout |-> TimeoutArg(data.timeout),
                            requested |-> data.timeout,
                            chat_id |-> data.chat_id,
                            via |-> "http"], TRUE)

\* code_executor.py:93: execute_python_code called by other code
call_execute_python_code(p, E) ==
    /\ pc[p] = "idle"
    /\ \E c \in E.calls :
         Enter(p, [code |-> c.code,
                   input_files |-> c.input_files,
                   timeout |-> TimeoutArg(c.timeout),
                   requested |-> c.timeout,
                   chat_id |-> c.chat_id,
                   via |-> "direct"], FALSE)

\* code_executor.py:130-137
Mkdtemp(p, E) ==
    /\ pc[p] = "mkdtemp"
    /\ \/ \E name \in TempNames :
            LET parts == Append(TempRoot.parts, name)
            IN  /\ ~Exists(parts)
                /\ fs' = [fs EXCEPT !.dirs = @ \cup {parts}]
                /\ temp_dir_path' = Set(temp_dir_path, p, <<Abs(parts)>>)
                /\ trace' = [trace EXCEPT ![p].created = <<Abs(parts)>>]
                /\ idx' = Set(idx, p, 1)
                /\ pc' = Set(pc, p,
                        StageNext(0, Len(args[p].input_files), FALSE))
                /\ UNCHANGED <<result, exc>>
       \/ \E e \in E.mkdtemp_errors :
            /\ Raise(p, e)
            /\ UNCHANGED <<fs, temp_dir_path, trace, idx>>
    /\ UNCHANGED <<args, upload, response, issued>>

\* code_executor.py:140-182: one iteration of the loop over input_files
StageFile(p, E) ==
    /\ pc[p] = "stage"
    /\ LET i == idx[p]
           n == Len(args[p].input_files)
           file_info == args[p].input_files[i]
           td == temp_dir_path[p][1]
           target_path == PathJoin(td, file_info.filename)
       IN  IF ~PathAllowed(target_path, td)
           THEN /\ result' = [result EXCEPT
                        ![p].stderr = Append(@, L("skipped", i))]
                /\ trace' = [trace EXCEPT
                        ![p].stagelog = Append(@, <<i, "rejected">>),
                        ![p].warnings = Append(@, L("skipped", i))]
                /\ pc' = Set(pc, p, StageNext(i, n, TRUE))
                /\ idx' = Set(idx, p, i + 1)
                /\ fs' = fs
           ELSE \E o \in E.fetches \cup
                        (IF CanWrite(target_path) THEN {} ELSE {"io_error"}) :
                /\ (o = "written") => CanWrite(target_path)
                /\ IF o = "written"
                   THEN LET dest == Resolve(target_path, fs.dirs)[1]
                        IN  /\ fs' = WriteFile(fs, dest,
                                              FileContent("input", p))
                            /\ trace' = [trace EXCEPT
                                 ![p].stagelog = Append(@, <<i, o>>),
                                 ![p].fetched = Append(@,
                                    <<i, absolute_url(file_info.url)>>),
                                 ![p].outside =
                                    IF IsUnder(dest, td.parts) THEN @
                                    ELSE @ \cup {dest}]
                            /\ result' = result
                   ELSE /\ fs' = fs
                        /\ result' = [result EXCEPT
                                ![p].stderr = Append(@, L(o, i))]
                        /\ trace' = [trace EXCEPT
                                ![p].stagelog = Append(@, <<i, o>>),
                                ![p].fetched = Append(@,
                                    <<i, absolute_url(file_info.url)>>),
                                ![p].warnings = Append(@, L(o, i))]
                /\ pc' = Set(pc, p, StageNext(i, n, o # "written"))
                /\ idx' = Set(idx, p, i + 1)
    /\ UNCHANGED <<args, temp_dir_path, upload, exc, response, issued>>

WriteScriptKeepsExisting(p, E) ==
    /\ pc[p] = "write_script"
    /\ LET td == temp_dir_path[p][1]
           script_path == PathJoin(td, Rel(<<script_filename>>))
       IN  \/ /\ CanWrite(script_path)
              /\ fs' = IF Exists(Resolve(script_path, fs.dirs)[1]) THEN fs
                       ELSE WriteFile(fs, Resolve(script_path, fs.dirs)[1],
                                      FileContent("script", p))
              /\ trace' = [trace EXCEPT ![p].script = TRUE]
              /\ pc' = Set(pc, p, "run")
              /\ UNCHANGED <<result, exc>>
           \/ \E e \in E.write_errors \cup
                        (IF CanWrite(script_path) THEN {} ELSE {"OSError"}) :
              /\ Raise(p, e)
              /\ UNCHANGED <<fs, trace>>
    /\ UNCHANGED <<args, temp_dir_path, idx, upload, response, issued>>

\* code_executor.py:185-193
WriteScript(p, E) ==
    /\ pc[p] = "write_script"
    /\ LET td == temp_dir_path[p][1]
           script_path == PathJoin(td, Rel(<<script_filename>>))
       IN  \/ /\ CanWrite(script_path)
              /\ fs' = WriteFile(fs, Resolve(script_path, fs.dirs)[1],
                                 FileContent("script", p))
              /\ trace' = [trace EXCEPT ![p].script = TRUE]
              /\ pc' = Set(pc, p, "run")
              /\ UNCHANGED <<result, exc>>
           \/ \E e \in E.write_errors \cup
                        (IF CanWrite(script_path) THEN {} ELSE {"OSError"}) :
              /\ Raise(p, e)
              /\ UNCHANGED <<fs, trace>>
    /\ UNCHANGED <<args, temp_dir_path, idx, upload, response, issued>>

\* code_executor.py:195-224 and 255-273: subprocess.run and what follows
\* it.  A run is [kind, returncode, stdout, stderr, plot]: the interpreter
\* is not found ("spawn_failed"), the child outlives the timeout
\* ("timeout"), the wait itself raises because the timeout is nan
\* ("wait_error"), or the child terminates ("exit"); plot tells whether
\* the child left PLOT_FILENAME in its working directory.
RunChild(p, E) ==
    /\ pc[p] = "run"
    /\ \E run \in E.runs :
         LET td == temp_dir_path[p][1]
             temp_plot_path == Append(td.parts, PLOT_FILENAME)
         IN  /\ run.kind \in {"spawn_failed"}
                     \cup WaitOutcomes(args[p].timeout,
                                       args[p].code = LOOP_CODE)
             /\ (run.kind = "spawn_failed") => ~run.plot
             /\ fs' = ChildWrites(fs, run, temp_plot_path, p)
             /\ trace' = [trace EXCEPT
                    ![p].child = <<run>>,
                    ![p].executed =
                        LET script_path == Append(td.parts, script_filename)
                        IN  IF run.kind # "spawn_failed"
                               /\ script_path \in DOMAIN fs.files
                            THEN <<fs.files[script_path]>> ELSE None,
                    ![p].alive = ProcessesLeft(run)]
             /\ IF run.kind = "exit"
                THEN /\ result' = Set(result, p, RunResult(result[p], run))
                     /\ pc' = Set(pc, p, "check_plot")
                     /\ exc' = exc
                ELSE Raise(p, CASE run.kind = "timeout" -> "TimeoutExpired"
                                [] run.kind = "spawn_failed" ->
                                       "FileNotFoundError"
                                [] OTHER -> "ValueError")
    /\ UNCHANGED <<args, temp_dir_path, idx, upload, response, issued>>

CheckPlotOnlyOnSuccess(p, E) ==
    /\ pc[p] = "check_plot"
    /\ LET td == temp_dir_path[p][1]
           temp_plot_path == Append(td.parts, PLOT_FILENAME)
       IN  IF Exists(temp_plot_path) /\ result[p].success
           THEN \E u \in UUIDs \ issued :
                /\ issued' = issued \cup {u}
                /\ upload' = Set(upload, p,
                        <<PathJoin(UPLOADS_DIR, args[p].chat_id.s),
                          unique_plot_filename(u)>>)
                /\ pc' = Set(pc, p, "makedirs")
           ELSE /\ pc' = Set(pc, p, AfterTry)
                /\ UNCHANGED <<issued, upload>>
    /\ UNCHANGED <<args, result, temp_dir_path, idx, exc, response, fs,
                   trace>>

\* code_executor.py:227-233: the artifact is looked for, its durable
\* location and name are computed
CheckPlot(p, E) ==
    /\ pc[p] = "check_plot"
    /\ LET td == temp_dir_path[p][1]
           temp_plot_path == Append(td.parts, PLOT_FILENAME)
       IN  IF Exists(temp_plot_path)
           THEN \E u \in UUIDs \ issued :
                /\ issued' = issued \cup {u}
                /\ upload' = Set(upload, p,
                        <<PathJoin(UPLOADS_DIR, args[p].chat_id.s),
                          unique_plot_filename(u)>>)
                /\ pc' = Set(pc, p, "makedirs")
           ELSE /\ pc' = Set(pc, p, AfterTry)
                /\ UNCHANGED <<issued, upload>>
    /\ UNCHANGED <<args, result, temp_dir_path, idx, exc, response, fs,
                   trace>>

\* code_executor.py:248-253: promotion failed
PromotionFailedUrlSet(p) ==
    /\ result' = [result EXCEPT
                    ![p].stderr = Append(@, L("plot_error", 0)),
                    ![p].plot_url = <<args[p].chat_id.s, upload[p][2]>>]
    /\ trace' = [trace EXCEPT ![p].promofail = TRUE]
    /\ pc' = Set(pc, p, AfterTry)
    /\ fs' = fs

PromotionFailedClearsSuccess(p) ==
    /\ result' = [result EXCEPT
                    ![p].stderr = Append(@, L("plot_error", 0)),
                    ![p].plot_url = None,
                    ![p].success = FALSE,
                    ![p].error = <<"unexpected", "OSError">>]
    /\ trace' = [trace EXCEPT ![p].promofail = TRUE]
    /\ pc' = Set(pc, p, AfterTry)
    /\ fs' = fs

PromotionFailed(p) ==
    /\ result' = [result EXCEPT
                    ![p].stderr = Append(@, L("plot_error", 0)),
                    ![p].plot_url = None]
    /\ trace' = [trace EXCEPT ![p].promofail = TRUE]
    /\ pc' = Set(pc, p, AfterTry)
    /\ fs' = fs

\* code_executor.py:236
MakeDirs(p, E) ==
    /\ pc[p] = "makedirs"
    /\ LET persistent_upload_dir == upload[p][1]
           made == makedirs(persistent_upload_dir, fs)
       IN  \/ /\ made # None
              /\ fs' = made[1]
              /\ pc' = Set(pc, p, "move")
              /\ UNCHANGED <<result, trace>>
           \/ /\ E.faults \/ made = None
              /\ PromotionFailed(p)
    /\ UNCHANGED <<args, temp_dir_path, idx, upload, exc, response, issued>>

\* code_executor.py:239-246
MovePlot(p, E) ==
    /\ pc[p] = "move"
    /\ LET td == temp_dir_path[p][1]
           temp_plot_path == Append(td.parts, PLOT_FILENAME)
           persistent_plot_path ==
               PathJoin(upload[p][1], Rel(<<upload[p][2]>>))
           ok == CanWrite(persistent_plot_path) /\ Exists(temp_plot_path)
       IN  \/ /\ ok
              /\ LET dst == Resolve(persistent_plot_path, fs.dirs)[1]
                 IN  /\ fs' = MoveFile(fs, temp_plot_path, dst)
                     /\ trace' = [trace EXCEPT ![p].stored = <<dst>>]
              /\ result' = [result EXCEPT ![p].plot_url =
                                <<args[p].chat_id.s, upload[p][2]>>]
              /\ pc' = Set(pc, p, AfterTry)
           \/ /\ E.faults \/ ~ok
              /\ PromotionFailed(p)
    /\ UNCHANGED <<args, temp_dir_path, idx, upload, exc, response, issued>>

CleanupEscalates(p, E) ==
    /\ pc[p] = "finally"
    /\ IF temp_dir_path[p] # None /\ Exists(temp_dir_path[p][1].parts)
       THEN \/ /\ fs' = RemoveTree(fs, temp_dir_path[p][1].parts)
               /\ trace' = [trace EXCEPT ![p].rmtree = @ + 1]
               /\ UNCHANGED <<result, exc>>
            \/ /\ E.faults
               /\ fs' = fs
               /\ trace' = [trace EXCEPT ![p].rmfailed = TRUE]
               /\ result' = [result EXCEPT
                                ![p].error = <<"unexpected", "OSError">>,
                                ![p].success = FALSE]
               /\ exc' = Set(exc, p, <<"OSError">>)
       ELSE UNCHANGED <<fs, trace, result, exc>>
    /\ pc' = Set(pc, p, "return")
    /\ UNCHANGED <<args, temp_dir_path, idx, upload, response, issued>>

\* code_executor.py:274-282: the finally clause
Cleanup(p, E) ==
    /\ pc[p] = "finally"
    /\ IF temp_dir_path[p] # None /\ Exists(temp_dir_path[p][1].parts)
       THEN \/ /\ fs' = RemoveTree(fs, temp_dir_path[p][1].parts)
               /\ trace' = [trace EXCEPT ![p].rmtree = @ + 1]
            \/ /\ E.faults
               /\ fs' = fs
               /\ trace' = [trace EXCEPT ![p].rmfailed = TRUE]
       ELSE UNCHANGED <<fs, trace>>
    /\ pc' = Set(pc, p, "return")
    /\ UNCHANGED <<args, result, temp_dir_path, idx, upload, exc, response,
                   issued>>

\* code_executor.py:119 and 284, server.py:363-368: the call completes,
\* with its result or with the exception that escaped, and the endpoint
\* answers
Return(p) ==
    /\ pc[p] = "return"
    /\ pc' = Set(pc, p, "done")
    /\ trace' = [trace EXCEPT
            ![p].outcome = IF exc[p] = None THEN "returned" ELSE "raised",
            ![p].absent = trace[p].created = None
                          \/ ~Exists(trace[p].created[1].parts)]
    /\ response' = IF args[p].via = "http"
                   THEN Set(response, p, IF exc[p] = None
                                         THEN <<200, "result">>
                                         ELSE <<500, "error">>)
                   ELSE response
    /\ UNCHANGED <<args, result, temp_dir_path, idx, upload, exc, fs,
                   issued>>

\* --------------------------------------------------------- environments
S1 == Rel(<< <<"s", "1">> >>)
S_UP == Rel(<<DOTDOT, <<"x">> >>)               \* chat_id "../x"
S2 == Rel(<< <<"s", "2">> >>)

F_A == Rel(<< <<"a">> >>)                       \* "a"
F_UP == Rel(<<DOTDOT, <<"x">> >>)               \* "../x"
F_ABS == Abs(<< <<"e">> >>)                     \* "/e"
F_SIB == Rel(<<DOTDOT, <<"w", "1", "x">> >>)    \* "../w1x"
F_SELF == Rel(<<>>)                             \* ""
F_OTHER == Rel(<<DOTDOT, <<"w", "2">>, <<"a">> >>)  \* "../w2/a"
F_PLOT == Rel(<<PLOT_FILENAME>>)                \* "plot.png"
F_SCRIPT == Rel(<<script_filename>>)            \* "script.py"

Filenames == {F_A, F_UP, F_ABS, F_SIB, F_SELF}
FileSpecs == {FileSpec(f, U_PATH) : f \in Filenames}
FileLists == UNION {[1..n -> FileSpecs] : n \in 0..MaxFiles}

Timeouts ==
    {NotGiven, PyNone, NaN, PosInf, NegInf,
     Num(0 - 1), Num(0), Num(1), Num(MAX_TIMEOUT), Num(MAX_TIMEOUT + 1)}

ValidBodies ==
    {Body("object", Str(Rel(<<>>)), Str(S1), FileList(fl), Num(1)) :
        fl \in FileLists}
    \cup {Body("object", Str(Rel(<<>>)), Str(S1), NoFileList, t) :
        t \in Timeouts}
    \cup {Body("object", Str(Rel(<<>>)), Str(S_UP), NoFileList, Num(1))}
    \cup {Body("object", Str(Rel(<<>>)), Str(S1),
                FileList(<<FileSpec(F_A, u)>>), Num(1)) :
        u \in {U_NET, U_ABS}}
    \cup {Body("object", Str(Rel(<<>>)), Str(S1),
                FileList(<<FileSpec(f, U_PATH)>>), Num(1)) :
        f \in {F_PLOT, F_SCRIPT}}
    \cup {Body("object", Str(LOOP_CODE), Str(S1), NoFileList, t) :
        t \in {NotGiven, PyNone, NaN, Num(1), Num(MAX_TIMEOUT + 1)}}

InvalidBodies ==
    {Body("falsy", Absent, Absent, NoFileList, NotGiven),
     Body("array_with_keys", Absent, Absent, NoFileList, NotGiven),
     Body("object", Absent, Str(S1), NoFileList, NotGiven),
     Body("object", Str(Rel(<<>>)), Absent, NoFileList, NotGiven),
     Body("object", NotStr, Str(S1), NoFileList, NotGiven),
     Body("object", Str(Rel(<<>>)), NotStr, NoFileList, NotGiven),
     Body("object", Str(Rel(<<>>)), Str(Rel(<<>>)), NoFileList, NotGiven),
     Body("object", Str(Rel(<<>>)), Str(S1), NotAList, NotGiven),
     Body("object", Str(Rel(<<>>)), Str(S1), FileList(<<BadItem>>), NotGiven),
     Body("object", Str(Rel(<<>>)), Str(S1), NoFileList, PyStr)}

Call(input_files, timeout, chat_id) ==
    [code |-> ANY_CODE, input_files |-> input_files, timeout |-> timeout,
     chat_id |-> chat_id]

Calls ==
    {Call(<<>>, t, Str(S1)) : t \in Timeouts \cup {PyStr}}
    \cup {Call(<<>>, NotGiven, c) : c \in {NoChat, Str(Rel(<<>>))}}

Run(kind, returncode, stdout, stderr, plot) ==
    [kind |-> kind, returncode |-> returncode, stdout |-> stdout,
     stderr |-> stderr, plot |-> plot, inside |-> {}, spawns |-> FALSE,
     shows |-> <<>>]

\* a run whose user code makes PLOT_FILENAME a directory of several files
RunDir(kind, returncode, stdout, stderr, inside) ==
    [kind |-> kind, returncode |-> returncode, stdout |-> stdout,
     stderr |-> stderr, plot |-> TRUE, inside |-> inside, spawns |-> FALSE,
     shows |-> <<>>]

\* code_executor.py:69-83, _save_and_show: the calls of plt.show() of one
\* run, shows[k] telling whether plt.savefig would succeed at call k.
\* Each call is [attempt, saved]: the save was tried, and it succeeded.
RECURSIVE save_and_show(_, _)
save_and_show(shows, _plot_saved) ==
    IF shows = <<>> THEN <<>>
    ELSE LET attempt == ~_plot_saved
             saved == attempt /\ Head(shows)
         IN  <<[attempt |-> attempt, saved |-> saved]>>
             \o save_and_show(Tail(shows), _plot_saved \/ saved)

\* code_executor.py:78 and 80: what the calls print on stderr
RECURSIVE ShowLines(_)
ShowLines(calls) ==
    IF calls = <<>> THEN <<>>
    ELSE (IF Head(calls).saved THEN <<L("plot_saved", 0)>>
          ELSE IF Head(calls).attempt THEN <<L("save_error", 0)>>
          ELSE <<>>) \o ShowLines(Tail(calls))

\* a run of user code that draws figures and calls plt.show() Len(shows)
\* times, then exits
ShowRun(returncode, shows) ==
    LET calls == save_and_show(shows, FALSE)
    IN  [kind |-> "exit", returncode |-> returncode, stdout |-> <<>>,
         stderr |-> ShowLines(calls),
         plot |-> \E k \in DOMAIN calls : calls[k].saved,
         inside |-> {}, spawns |-> FALSE, shows |-> shows]

\* a run whose user code starts a process of its own that keeps running
\* (subprocess.Popen(['sleep', '600']))
WithDescendant(run) == [run EXCEPT !.spawns = TRUE]

Runs ==
    {Run("exit", rc, <<L("out", 0)>>, err, plot) :
        rc \in {0, 1},
        err \in {<<>>, <<L("plot_saved", 0), L("err", 0)>>,
                  <<L("save_error", 0), L("err", 0)>>},
        plot \in BOOLEAN}
    \cup {Run("timeout", 0, <<>>, <<>>, plot) : plot \in BOOLEAN}
    \cup {Run("wait_error", 0, <<>>, <<>>, plot) : plot \in BOOLEAN}
    \cup {Run("spawn_failed", 0, <<>>, <<>>, FALSE)}
    \cup {RunDir("exit", 0, <<>>, <<>>, {<<"a">>, <<"b">>})}
    \cup {WithDescendant(Run("timeout", 0, <<>>, <<>>, FALSE)),
          WithDescendant(Run("exit", 0, <<>>, <<>>, FALSE))}
    \cup {ShowRun(0, sh) : sh \in {<<TRUE>>, <<TRUE, TRUE>>, <<FALSE, TRUE>>,
                                    <<FALSE, FALSE>>}}

\* one request at a time, every input
Wide ==
    [bodies |-> ValidBodies \cup InvalidBodies,
     calls |-> Calls,
     fetches |-> {"written", "request_error", "io_error", "unexpected"},
     runs |-> Runs,
     mkdtemp_errors |-> {"FileNotFoundError", "OSError"},
     write_errors |-> {"OSError"},
     faults |-> TRUE]

\* concurrent requests of one session
Narrow ==
    [bodies |-> {Body("object", Str(Rel(<<>>)), Str(S1), NoFileList, Num(1)),
                 Body("object", Str(Rel(<<>>)), Str(S1),
                      FileList(<<FileSpec(F_A, U_PATH)>>), Num(1)),
                 Body("object", Str(Rel(<<>>)), Str(S1),
                      FileList(<<FileSpec(F_OTHER, U_PATH)>>), Num(1)),
                 Body("object", Str(Rel(<<>>)), Str(S2), NoFileList, Num(1))},
     calls |-> {Call(<<>>, NotGiven, Str(S1))},
     fetches |-> {"written"},
     runs |-> {Run("exit", 0, <<>>, <<>>, TRUE),
               Run("exit", 1, <<>>, <<L("err", 0)>>, FALSE),
               Run("timeout", 0, <<>>, <<>>, TRUE)},
     mkdtemp_errors |-> {"OSError"},
     write_errors |-> {},
     faults |-> TRUE]

\* concurrent requests of one session on a host without faults: every
\* fetch, write and file operation that can succeed does
Quiet ==
    [bodies |-> {Body("object", Str(Rel(<<>>)), Str(S1), NoFileList, Num(1)),
                 Body("object", Str(Rel(<<>>)), Str(S1),
                      FileList(<<FileSpec(F_A, U_PATH)>>), Num(1))},
     calls |-> {Call(<<>>, NotGiven, Str(S1))},
     fetches |-> {"written"},
     runs |-> {Run("exit", 0, <<>>, <<>>, TRUE),
               Run("exit", 1, <<>>, <<L("err", 0)>>, TRUE),
               Run("exit", 0, <<>>, <<>>, FALSE)},
     mkdtemp_errors |-> {},
     write_errors |-> {},
     faults |-> FALSE]

\* one request at a time, the interpreter being installed: every timeout,
\* user code that ends and user code that does not
Live ==
    [bodies |-> {Body("object", Str(c), Str(S1), FileList(fl), t) :
                    c \in {ANY_CODE, LOOP_CODE},
                    fl \in {<<>>, <<FileSpec(F_A, U_PATH)>>},
                    t \in Timeouts}
                \cup InvalidBodies,
     calls |-> Calls,
     fetches |-> {"written", "request_error", "io_error", "unexpected"},
     runs |-> {r \in Runs : r.kind # "spawn_failed"},
     mkdtemp_errors |-> {"FileNotFoundError", "OSError"},
     write_errors |-> {"OSError"},
     faults |-> TRUE]

Step(p, E) ==
    \/ execute_code(p, E)
    \/ call_execute_python_code(p, E)
    \/ Mkdtemp(p, E)
    \/ StageFile(p, E)
    \/ WriteScript(p, E)
    \/ RunChild(p, E)
    \/ CheckPlot(p, E)
    \/ MakeDirs(p, E)
    \/ MovePlot(p, E)
    \/ Cleanup(p, E)
    \/ Return(p)

\* one request, handled alone
Next == Step(1, Wide)

Spec == Init /\ [][Next]_vars

\* one request whose thread keeps being scheduled: the handler takes its
\* next step whenever it has one
NextLive == Step(1, Live)

SpecLive == Init /\ [][NextLive]_vars /\ WF_vars(NextLive)

\* the requests of Procs handled concurrently
NextConc == \E p \in Procs : Step(p, Narrow)

SpecConc == Init /\ [][NextConc]_vars

\* the requests of Procs handled concurrently on a host without faults
NextQuiet == \E p \in Procs : Step(p, Quiet)

SpecQuiet == Init /\ [][NextQuiet]_vars

\* =============================================================== claims
Done(p) == pc[p] = "done"
Returned(p) == trace[p].outcome = "returned"
ChildIs(p, kind) == trace[p].child # None /\ trace[p].child[1].kind = kind
Contains(lines, l) == \E k \in DOMAIN lines : lines[k] = l

\* C1: every call that created a work area has removed it exactly once and
\* the work area is absent when the call completes, on every exit path,
\* unless the removal itself failed.
C1_WorkAreaRemoved ==
    \A p \in Procs :
        (Done(p) /\ trace[p].created # None /\ ~trace[p].rmfailed)
            => /\ trace[p].rmtree = 1
               /\ trace[p].absent
               /\ ~Exists(trace[p].created[1].parts)

\* C1 witness: a call whose handler itself raised has completed, its work
\* area removed once.
C1_Witness ==
    \E p \in Procs :
        /\ Done(p) /\ trace[p].created # None /\ exc[p] # None
        /\ trace[p].rmtree = 1 /\ trace[p].absent

\* C2: every request that passes validation is answered 200 with the
\* result object, whatever the outcome of the run (zero exit, non-zero
\* exit, timeout, spawn failure).
C2_ValidatedAnswered200 ==
    \A p \in Procs :
        (Done(p) /\ trace[p].validated) => response[p] = <<200, "result">>

\* C3: when the child outlives the effective timeout, the call returns a
\* result with success false, the timed-out error naming the effective
\* timeout and no plot_url, and nothing is added to the durable store.
C3_TimeoutResult ==
    \A p \in Procs :
        (Done(p) /\ ChildIs(p, "timeout"))
            => /\ Returned(p)
               /\ ~result[p].success
               /\ result[p].error = <<"timeout", args[p].timeout>>
               /\ result[p].plot_url = None
               /\ trace[p].stored = None

\* C4: in every returned result success is true exactly when the child was
\* spawned, terminated before the timeout and exited with status zero;
\* staging warnings and promotion failures do not change it.
C4_SuccessIffExitZero ==
    \A p \in Procs :
        Returned(p) =>
            (result[p].success <=>
                (ChildIs(p, "exit") /\ trace[p].child[1].returncode = 0))

\* C4 witness: a returned result with success true although a staging
\* warning was recorded and the promotion failed.
C4_Witness ==
    \E p \in Procs :
        /\ Returned(p) /\ result[p].success
        /\ trace[p].warnings # <<>> /\ trace[p].promofail

\* C5: in every returned result the error is set exactly when success is
\* false.
C5_ErrorIffNotSuccess ==
    \A p \in Procs :
        Returned(p) => ((result[p].error # None) <=> ~result[p].success)

\* C5 witness: a result returned after a non-zero exit, with its error.
C5_Witness ==
    \E p \in Procs :
        /\ Returned(p) /\ ChildIs(p, "exit")
        /\ trace[p].child[1].returncode # 0
        /\ ~result[p].success /\ result[p].error # None

\* C6: the effective timeout handed to the wait on the child is the
\* default when the requested one is missing, non-numeric or <= 0, the
\* maximum when it is above the maximum, the requested one otherwise;
\* it always lies in (0, maximum].
C6_EffectiveTimeout ==
    \A p \in Procs :
        trace[p].child # None =>
            LET r == args[p].requested
                t == args[p].timeout
            IN  /\ (r.tag \in {"missing", "none", "str"}
                        \/ (r.tag = "num" /\ r.v <= 0) \/ r.tag = "ninf")
                       => t = Num(DEFAULT_TIMEOUT)
                /\ ((r.tag = "num" /\ r.v > MAX_TIMEOUT) \/ r.tag = "inf")
                       => t = Num(MAX_TIMEOUT)
                /\ (r.tag = "num" /\ r.v > 0 /\ r.v <= MAX_TIMEOUT)
                       => t = r
                /\ t.tag = "num" /\ t.v > 0 /\ t.v <= MAX_TIMEOUT

\* C7: staging never writes a file outside the work area of its request.
C7_NoWriteOutside ==
    \A p \in Procs : trace[p].outside = {}

\* C8: every warning recorded while staging is a line of the stderr of
\* the result returned, also when the child ran to completion.
C8_WarningsInStderr ==
    \A p \in Procs :
        Returned(p) =>
            \A k \in DOMAIN trace[p].warnings :
                Contains(result[p].stderr, trace[p].warnings[k])

InOrder(log) == \A k \in DOMAIN log : log[k][1] = k

\* C9: a failure on one input file spec does not stop staging: the specs
\* are handled one after the other in input order, all of them, and then
\* the script is written (unless writing it fails) and the child is run.
C9_StagingContinues ==
    \A p \in Procs :
        LET log == trace[p].stagelog
        IN  /\ InOrder(log)
            /\ pc[p] = "stage" => Len(log) = idx[p] - 1
            /\ (trace[p].created # None /\ pc[p] # "stage")
                   => Len(log) = Len(args[p].input_files)
            /\ (Done(p) /\ trace[p].created # None /\ ~trace[p].script)
                   => result[p].error = <<"unexpected", "OSError">>
            /\ (Done(p) /\ trace[p].script) => trace[p].child # None

\* C9 witness: the first of two specs failed, the second was written, and
\* the child ran to its exit.
C9_Witness ==
    \E p \in Procs :
        /\ Done(p) /\ ChildIs(p, "exit")
        /\ Len(trace[p].stagelog) = 2
        /\ trace[p].stagelog[1][2] # "written"
        /\ trace[p].stagelog[2][2] = "written"

StoredOwn(p) ==
    LET f == trace[p].stored[1]
    IN  /\ f \in DOMAIN fs.files
        /\ fs.files[f] = FileContent("plot", p)
        /\ IsUnder(f, PathJoin(UPLOADS_DIR, args[p].chat_id.s).parts)
        /\ result[p].plot_url = <<args[p].chat_id.s, f[Len(f)]>>

\* C10: two concurrent executions of one session that each produce an
\* artifact leave two distinct files in the store, each plot_url names the
\* file of its own execution, and neither file is overwritten.
C10_ConcurrentArtifactsDistinct ==
    /\ \A p \in Procs : trace[p].stored # None => StoredOwn(p)
    /\ \A p, q \in Procs :
        (p # q /\ trace[p].stored # None /\ trace[q].stored # None)
            => trace[p].stored # trace[q].stored
    /\ \A p \in Procs :
        (Done(p) /\ ChildIs(p, "exit") /\ trace[p].child[1].plot
            /\ ~trace[p].promofail) => trace[p].stored # None

\* C10 witness: two executions of the same session have completed and
\* both have stored their artifact.
C10_Witness ==
    \E p, q \in Procs :
        /\ p # q /\ Done(p) /\ Done(q)
        /\ args[p].chat_id = args[q].chat_id
        /\ trace[p].stored # None /\ trace[q].stored # None

InStore(f) == IsUnder(f, UPLOADS_DIR.parts)

\* C11: an execution adds at most one file to the durable store, whatever
\* the user code does and whatever is in the work area after the run.
C11_AtMostOneFileAdded ==
    Cardinality({f \in DOMAIN fs.files : InStore(f)})
        <= Cardinality({p \in Procs : trace[p].stored # None})

\* the durable directory of the session of request p, as the file system
\* resolves it
SessionDir(p) == normpath(PathJoin(UPLOADS_DIR, args[p].chat_id.s)).parts

C13_PromotionFailureIsWarning ==
    \A p \in Procs :
        (Returned(p) /\ trace[p].promofail
            /\ trace[p].child[1].returncode = 0)
            => /\ result[p].success
               /\ result[p].error = None
               /\ result[p].plot_url = None
               /\ result[p].stderr =
                     Append(trace[p].child[1].stderr, L("plot_error", 0))

\* C13 witness: such a result has been returned, the child having
\* written to stderr.
C13_Witness ==
    \E p \in Procs :
        /\ Returned(p) /\ trace[p].promofail
        /\ trace[p].child[1].returncode = 0
        /\ trace[p].child[1].stderr # <<>>

\* C14: a malformed request is answered with a 4xx status and an error
\* body; no work area is created, nothing is fetched, nothing is spawned.
C14_MalformedRejected ==
    \A p \in Procs :
        trace[p].outcome = "rejected"
            => /\ response[p][1] \in 400..499
               /\ response[p][2] = "error"
               /\ trace[p].created = None
               /\ trace[p].stagelog = <<>>
               /\ trace[p].child = None

\* request p holds a work area it has not yet torn down
InFlight(p) ==
    /\ temp_dir_path[p] # None
    /\ pc[p] \in {"stage", "write_script", "run", "check_plot", "makedirs",
                  "move", "finally"}

\* C15: concurrently handled requests have pairwise distinct work areas,
\* and the work area of an in-flight request is neither written to nor
\* deleted by another request.
C15_WorkAreasExclusive ==
    \A p \in Procs :
        InFlight(p) =>
            LET td == temp_dir_path[p][1].parts
            IN  /\ td \in fs.dirs
                /\ \A q \in Procs \ {p} :
                      InFlight(q) => temp_dir_path[q] # temp_dir_path[p]
                /\ \A f \in DOMAIN fs.files :
                      IsUnder(f, td) => fs.files[f].n = p

\* C15 witness: two requests are in flight, one of them was given a
\* filename that points into the other's work area.
C15_Witness ==
    \E p, q \in Procs :
        /\ p # q /\ InFlight(p) /\ InFlight(q)
        /\ Len(trace[p].stagelog) = 1
        /\ args[p].input_files[1].filename = F_OTHER
        /\ temp_dir_path[q][1].parts = Append(TempRoot.parts, <<"w", "2">>)

ErrorKind(p) ==
    IF Returned(p) /\ result[p].error # None
    THEN result[p].error[1] ELSE "none"

\* C16: the three failure messages are produced each for its own kind
\* only: interpreter-not-found exactly when the interpreter could not be
\* spawned, timed-out exactly when the child outlived the timeout,
\* failed-with-return-code exactly when the child exited non-zero.
C16_MessagePerKind ==
    \A p \in Procs :
        Done(p) =>
            /\ ErrorKind(p) = "not_found" <=> ChildIs(p, "spawn_failed")
            /\ ErrorKind(p) = "timeout" <=> ChildIs(p, "timeout")
            /\ ErrorKind(p) = "retcode" <=>
                   (ChildIs(p, "exit") /\ trace[p].child[1].returncode # 0)

\* a line the instrumentation preamble prints (code_executor.py:78, 80)
Instrumentation(line) == line.tag \in {"plot_saved", "save_error"}

RECURSIVE WithoutInstrumentation(_)
WithoutInstrumentation(lines) ==
    IF lines = <<>> THEN <<>>
    ELSE IF Instrumentation(Head(lines))
         THEN WithoutInstrumentation(Tail(lines))
         ELSE <<Head(lines)>> \o WithoutInstrumentation(Tail(lines))

\* C17: after a non-zero exit the result has success false, the child's
\* stdout, every line of the child's stderr, and an error made of the
\* return code and the child's stderr without the instrumentation lines.
C17_NonZeroExitResult ==
    \A p \in Procs :
        (Returned(p) /\ ChildIs(p, "exit")
            /\ trace[p].child[1].returncode # 0)
            => LET c == trace[p].child[1]
               IN  /\ ~result[p].success
                   /\ result[p].stdout = c.stdout
                   /\ \A k \in DOMAIN c.stderr :
                         Contains(result[p].stderr, c.stderr[k])
                   /\ result[p].error =
                         <<"retcode", c.returncode,
                           WithoutInstrumentation(c.stderr)>>


Destination(p, i) ==
    abspath(PathJoin(trace[p].created[1], args[p].input_files[i].filename))

\* C19: an input file spec whose normalised destination does not have the
\* work area as a strict ancestor (outside it, the work area itself, a
\* sibling sharing its path as a string prefix) is rejected before any
\* fetch: its only outcome is the rejection, no request is sent and
\* nothing is written.
C19_NotInsideRejected ==
    \A p \in Procs :
        \A k \in DOMAIN trace[p].stagelog :
            LET i == trace[p].stagelog[k][1]
            IN  ~IsUnder(Destination(p, i).parts,
                         abspath(trace[p].created[1]).parts)
                    => trace[p].stagelog[k][2] = "rejected"


\* what has happened to request p so far, phase by phase
Staged(p) == trace[p].stagelog # <<>>
Spawned(p) == trace[p].child # None
PromotionStarted(p) == upload[p] # None
PromotionFinished(p) == trace[p].stored # None \/ trace[p].promofail
TornDown(p) == trace[p].rmtree > 0 \/ trace[p].rmfailed
Answered(p) == trace[p].outcome # "pending"

\* C20: within one request the phases follow one another: an input is
\* staged only before the script is written, the script is written before
\* the child is spawned, promotion starts only after the child has
\* terminated, the work area is torn down only after a promotion that
\* started has finished and nothing of the other phases happens after it,
\* and the answer is given only after the teardown of a work area that
\* was created.
C20_PhasesInOrder ==
    [][\A p \in Procs :
        /\ (trace'[p].stagelog # trace[p].stagelog)
               => /\ ~trace[p].script /\ ~Spawned(p)
                  /\ ~PromotionStarted(p) /\ ~TornDown(p)
        /\ (trace'[p].script # trace[p].script)
               => ~Spawned(p) /\ ~PromotionStarted(p) /\ ~TornDown(p)
        /\ (trace'[p].child # trace[p].child)
               => /\ trace[p].script
                  /\ ~PromotionStarted(p) /\ ~TornDown(p)
        /\ (upload'[p] # upload[p])
               => ChildIs(p, "exit") /\ ~TornDown(p)
        /\ (trace'[p].stored # trace[p].stored
                \/ trace'[p].promofail # trace[p].promofail)
               => PromotionStarted(p) /\ ~TornDown(p)
        /\ (trace'[p].rmtree # trace[p].rmtree
                \/ trace'[p].rmfailed # trace[p].rmfailed)
               => /\ PromotionStarted(p) => PromotionFinished(p)
                  /\ ~TornDown(p) /\ ~Answered(p)
        /\ (trace[p].created # None
                /\ Exists(trace[p].created[1].parts)
                /\ ~Exists(trace[p].created[1].parts)')
               => trace'[p].rmtree # trace[p].rmtree
        /\ (trace'[p].outcome # trace[p].outcome /\ trace[p].created # None)
               => TornDown(p)
      ]_vars

\* a request has gone through every phase: an input staged, the child
\* run, the artifact promoted, the work area removed, the result returned
C20_Witness ==
    \E p \in Procs :
        /\ Done(p) /\ Returned(p)
        /\ Staged(p) /\ trace[p].script /\ ChildIs(p, "exit")
        /\ trace[p].stored # None
        /\ trace[p].rmtree = 1


\* C21: when a request whose child outlived the timeout is answered, no
\* process started on behalf of the request is still running: the child
\* and every descendant it started have been terminated.
C21_NoProcessLeftAfterTimeout ==
    \A p \in Procs :
        (Done(p) /\ ChildIs(p, "timeout")) => trace[p].alive = {}


\* C22: within one run the replacement display routine tries to save the
\* figure on its first invocation only: no invocation after the first
\* performs a save, whatever the outcome of the first.
C22_SaveOnFirstShowOnly ==
    \A p \in Procs :
        trace[p].child # None =>
            LET calls == save_and_show(trace[p].child[1].shows, FALSE)
            IN  \A k \in DOMAIN calls : k > 1 => ~calls[k].attempt


\* C23: the durable store is append-only: no step of any request removes,
\* moves or overwrites a file that is in the store, whichever session it
\* belongs to; every file there stays, with the same content.
C23_StoreAppendOnly ==
    [][\A f \in DOMAIN fs.files :
            InStore(f) => /\ f \in DOMAIN fs'.files
                          /\ fs'.files[f] = fs.files[f]]_vars

\* a request has added its artifact to a store that held the artifact of
\* an earlier request, of its own session or of another, and both are
\* there with their own content
C23_Witness ==
    \E p, q \in Procs :
        /\ p # q /\ Done(p) /\ Done(q)
        /\ trace[p].stored # None /\ trace[q].stored # None
        /\ args[p].chat_id # args[q].chat_id
        /\ StoredOwn(p) /\ StoredOwn(q)


\* C24: when executions of one session reach promotion concurrently and
\* the session directory does not exist yet, every promotion succeeds
\* under every interleaving of the directory creations and the moves: on
\* a host without faults no request that started a promotion gets a
\* promotion warning, and its artifact is in the store.
C24_ConcurrentPromotionsSucceed ==
    \A p \in Procs :
        PromotionStarted(p) =>
            /\ ~trace[p].promofail
            /\ ~Contains(result[p].stderr, L("plot_error", 0))
            /\ Done(p) => (trace[p].stored # None /\ StoredOwn(p))

\* two requests of one session have both passed the creation of the
\* session directory, which did not exist, before either has moved its
\* artifact
C24_Witness ==
    \E p, q \in Procs :
        /\ p # q
        /\ pc[p] = "move" /\ pc[q] = "move"
        /\ upload[p][1] = upload[q][1]
        /\ normpath(upload[p][1]).parts \in fs.dirs
        /\ ~trace[p].promofail /\ ~trace[q].promofail


\* C25: a failure to remove the work area at teardown is only logged: the
\* step in which the removal fails, like the one in which it succeeds,
\* leaves the result and the pending exception as they are, and the call
\* then completes as it would have: it returns that result unless an
\* exception was already on its way out.
C25_TeardownFailureOnlyLogged ==
    [][\A p \in Procs :
        /\ (trace'[p].rmfailed # trace[p].rmfailed
                \/ trace'[p].rmtree # trace[p].rmtree)
               => /\ result'[p] = result[p]
                  /\ exc'[p] = exc[p]
                  /\ pc'[p] = "return"
        /\ (trace'[p].outcome # trace[p].outcome /\ trace[p].rmfailed)
               => /\ result'[p] = result[p]
                  /\ trace'[p].outcome =
                        IF exc[p] = None THEN "returned" ELSE "raised"
      ]_vars

\* the removal of the work area failed and the call returned the result
\* of a successful run with its artifact
C25_Witness ==
    \E p \in Procs :
        /\ Done(p) /\ Returned(p)
        /\ trace[p].rmfailed /\ trace[p].rmtree = 0
        /\ Exists(trace[p].created[1].parts)
        /\ result[p].success /\ result[p].plot_url # None
        /\ result[p].stdout # <<>>


\* C26: the fetch for an input file whose url begins with "/" is sent to
\* the configured base origin with the url as its path; a url that does
\* not begin with "/" is fetched exactly as given.
C26_FetchTarget ==
    \A p \in Procs :
        \A k \in DOMAIN trace[p].fetched :
            LET url == args[p].input_files[trace[p].fetched[k][1]].url
                sent == trace[p].fetched[k][2]
            IN  IF url # <<>> /\ url[1] = "/"
                THEN sent = Origin(FRONTEND_BASE_URL) \o url
                ELSE sent = url


\* C27: an artifact is promoted and plot_url returned only if the run of
\* the user code generated the artifact file: a file that input staging
\* placed in the work area is never promoted.
C27_PromotedOnlyIfGenerated ==
    \A p \in Procs :
        (trace[p].stored # None \/ result[p].plot_url # None)
            => /\ trace[p].child # None
               /\ trace[p].child[1].plot


\* C28: for every session id that validation accepts, a promoted artifact
\* is stored strictly inside the durable-store root, in the directory of
\* that session id: the root joined with the id.
C28_StoredInSessionDir ==
    \A p \in Procs :
        trace[p].stored # None =>
            LET f == trace[p].stored[1]
            IN  /\ InStore(f)
                /\ SubSeq(f, 1, Len(f) - 1)
                     = UPLOADS_DIR.parts \o args[p].chat_id.s.parts


\* C29: the script the child executes is always the instrumentation
\* preamble followed by the user code of its request, whatever the input
\* files are: an input staged under the script's filename does not
\* replace or alter it.
C29_ExecutedScriptIsAssembled ==
    \A p \in Procs :
        (trace[p].child # None /\ ~ChildIs(p, "spawn_failed"))
            => trace[p].executed = <<FileContent("script", p)>>

\* an input has been staged under the script's filename and the child has
\* run the assembled script
C29_Witness ==
    \E p \in Procs :
        /\ ChildIs(p, "exit")
        /\ trace[p].executed = <<FileContent("script", p)>>
        /\ \E k \in DOMAIN trace[p].stagelog :
              /\ trace[p].stagelog[k][2] = "written"
              /\ args[p].input_files[trace[p].stagelog[k][1]].filename
                    = F_SCRIPT


\* C30: promotion runs after every normal termination of the child,
\* whatever its exit status: when the child wrote the artifact file the
\* promotion is carried out, and unless it fails the artifact is in the
\* store and plot_url is set, next to success = FALSE and an error when
\* the exit status was not zero; after a timeout, a spawn failure or an
\* unexpected exception there is no promotion.
C30_PromotionAfterEveryExit ==
    \A p \in Procs :
        Done(p) =>
            /\ (ChildIs(p, "exit") /\ trace[p].child[1].plot)
                  => /\ PromotionStarted(p)
                     /\ PromotionFinished(p)
                     /\ ~trace[p].promofail
                           => /\ trace[p].stored # None
                              /\ result[p].plot_url # None
                     /\ trace[p].child[1].returncode # 0
                           => /\ ~result[p].success
                              /\ result[p].error # None
            /\ ~ChildIs(p, "exit")
                  => /\ ~PromotionStarted(p)
                     /\ trace[p].stored = None
                     /\ result[p].plot_url = None

\* a child wrote the artifact and exited non-zero, and the result
\* returned carries the failure together with the promoted artifact
C30_Witness ==
    \E p \in Procs :
        /\ Done(p) /\ Returned(p)
        /\ ChildIs(p, "exit")
        /\ trace[p].child[1].returncode # 0 /\ trace[p].child[1].plot
        /\ trace[p].stored # None /\ StoredOwn(p)
        /\ ~result[p].success /\ result[p].error # None

====
